---- MODULE Spec2Model ----
(***************************************************************************)
(* Model of javascript/app.js: the appointment store kept under one       *)
(* localStorage key, the validation rules, the customer form's handlers,  *)
(* the administrator calendar and the cross-tab 'storage' listener.       *)
(*                                                                         *)
(* A JavaScript string is a sequence of one-character strings.  The value *)
(* of the localStorage key is such a sequence (or absent); JSON.stringify *)
(* and JSON.parse are modelled character by character.                    *)
(***************************************************************************)
EXTENDS Integers, Sequences, FiniteSets, TLC

(* ------------------------------ bounds -------------------------------- *)

\* A submit is not offered once the stored list holds this many records.
MaxAgendamentos == 2

\* Undelivered 'storage' events one page can have queued.
MaxEventos == 1

(* --------------------------- configuration ---------------------------- *)

CHAVE_ARMAZENAMENTO == "agenda_demo_barbearia"

LISTA_DE_HORARIOS_FIXOS ==
  << <<"0","9",":","0","0">>, <<"1","0",":","0","0">>, <<"1","1",":","0","0">>,
     <<"1","2",":","0","0">>, <<"1","3",":","0","0">>, <<"1","4",":","0","0">>,
     <<"1","5",":","0","0">>, <<"1","6",":","0","0">>, <<"1","7",":","0","0">> >>

MESES_PERMITIDOS == <<9, 10, 11>>

ANO_PERMITIDO == 2025

(* ------------------------- JavaScript values -------------------------- *)

\* Every value has the same three fields: t the type, s the characters of a
\* string (or the digits of a number, or the key of an object member), a the
\* items of an array (or the members of an object, or a member's value).
JNull == [t |-> "null", s |-> <<>>, a |-> <<>>]
Undefined == [t |-> "undefined", s |-> <<>>, a |-> <<>>]
JStr(chars) == [t |-> "str", s |-> chars, a |-> <<>>]
JNum(digits) == [t |-> "num", s |-> digits, a |-> <<>>]
JArr(items) == [t |-> "arr", s |-> <<>>, a |-> items]
JObj(members) == [t |-> "obj", s |-> <<>>, a |-> members]
Member(key, val) == [t |-> "member", s |-> key, a |-> <<val>>]

Range(f) == {f[i] : i \in DOMAIN f}

IndexOf(seq, x) ==
  IF \E i \in DOMAIN seq : seq[i] = x
    THEN (CHOOSE i \in DOMAIN seq : seq[i] = x /\ \A j \in 1..(i-1) : seq[j] # x) - 1
    ELSE -1

\* item.key : the member's value, undefined when there is none.
RECURSIVE GetMember(_, _, _)
GetMember(members, key, i) ==
  IF i > Len(members) THEN Undefined
  ELSE IF members[i].s = key THEN members[i].a[1]
  ELSE GetMember(members, key, i + 1)

Get(obj, key) == IF obj.t = "obj" THEN GetMember(obj.a, key, 1) ELSE Undefined

\* Assignment of a member while parsing: a repeated key keeps its first place
\* and takes the last value.
Put(members, key, val) ==
  IF \E i \in DOMAIN members : members[i].s = key
    THEN [i \in DOMAIN members |->
            IF members[i].s = key THEN Member(key, val) ELSE members[i]]
    ELSE Append(members, Member(key, val))

(* --------------------------- JSON.stringify --------------------------- *)

\* Faulty variant of QuoteChars: the characters as they are, none escaped.
SemEscape(chars) == chars

RECURSIVE QuoteChars(_)
QuoteChars(chars) ==
  IF chars = <<>> THEN <<>>
  ELSE (IF Head(chars) \in {"\"", "\\"} THEN <<"\\", Head(chars)>> ELSE <<Head(chars)>>)
       \o QuoteChars(Tail(chars))

Quote(chars) == <<"\"">> \o QuoteChars(chars) \o <<"\"">>

RECURSIVE JSONstringify(_), StringifyItems(_), StringifyMembers(_)
JSONstringify(v) ==
  CASE v.t = "str" -> Quote(v.s)
    [] v.t = "num" -> v.s
    [] v.t = "arr" -> <<"[">> \o StringifyItems(v.a) \o <<"]">>
    [] v.t = "obj" -> <<"{">> \o StringifyMembers(v.a) \o <<"}">>
    [] OTHER -> <<"n","u","l","l">>

StringifyItems(items) ==
  IF items = <<>> THEN <<>>
  ELSE JSONstringify(Head(items))
       \o (IF Len(items) > 1 THEN <<",">> \o StringifyItems(Tail(items)) ELSE <<>>)

StringifyMembers(members) ==
  IF members = <<>> THEN <<>>
  ELSE Quote(Head(members).s) \o <<":">> \o JSONstringify(Head(members).a[1])
       \o (IF Len(members) > 1 THEN <<",">> \o StringifyMembers(Tail(members)) ELSE <<>>)

(* ----------------------------- JSON.parse ----------------------------- *)

Digits == {"0","1","2","3","4","5","6","7","8","9"}

SyntaxError == [ok |-> FALSE, v |-> JNull, next |-> 0]
Parsed(v, next) == [ok |-> TRUE, v |-> v, next |-> next]

RECURSIVE SkipWs(_, _)
SkipWs(txt, i) == IF i <= Len(txt) /\ txt[i] = " " THEN SkipWs(txt, i + 1) ELSE i

RECURSIVE ParseChars(_, _, _)
ParseChars(txt, i, acc) ==
  IF i > Len(txt) THEN SyntaxError
  ELSE IF txt[i] = "\"" THEN Parsed(JStr(acc), i + 1)
  ELSE IF txt[i] = "\\"
    THEN IF i + 1 <= Len(txt) /\ txt[i + 1] \in {"\"", "\\"}
           THEN ParseChars(txt, i + 2, Append(acc, txt[i + 1]))
           ELSE SyntaxError
  ELSE ParseChars(txt, i + 1, Append(acc, txt[i]))

RECURSIVE ParseDigits(_, _, _)
ParseDigits(txt, i, acc) ==
  IF i <= Len(txt) /\ txt[i] \in Digits
    THEN ParseDigits(txt, i + 1, Append(acc, txt[i]))
    ELSE IF Len(acc) > 1 /\ acc[1] = "0" THEN SyntaxError ELSE Parsed(JNum(acc), i)

\* The character after the white space from i on is c.
NextIs(txt, i, c) == SkipWs(txt, i) <= Len(txt) /\ txt[SkipWs(txt, i)] = c

RECURSIVE ParseValue(_, _), ParseValueAt(_, _), ParseElements(_, _, _),
          ElementsAfter(_, _, _), ParseMembers(_, _, _), MemberAfterKey(_, _, _),
          MembersAfter(_, _, _, _)
\* A value, after any white space.
ParseValue(txt, i) == ParseValueAt(txt, SkipWs(txt, i))

\* A value that begins at j.
ParseValueAt(txt, j) ==
  IF j > Len(txt) THEN SyntaxError
  ELSE IF txt[j] = "\"" THEN ParseChars(txt, j + 1, <<>>)
  ELSE IF txt[j] \in Digits THEN ParseDigits(txt, j, <<>>)
  ELSE IF txt[j] = "n"
    THEN IF j + 3 <= Len(txt) /\ SubSeq(txt, j, j + 3) = <<"n","u","l","l">>
           THEN Parsed(JNull, j + 4) ELSE SyntaxError
  ELSE IF txt[j] = "["
    THEN IF NextIs(txt, j + 1, "]") THEN Parsed(JArr(<<>>), SkipWs(txt, j + 1) + 1)
         ELSE ParseElements(txt, j + 1, <<>>)
  ELSE IF txt[j] = "{"
    THEN IF NextIs(txt, j + 1, "}") THEN Parsed(JObj(<<>>), SkipWs(txt, j + 1) + 1)
         ELSE ParseMembers(txt, j + 1, <<>>)
  ELSE SyntaxError

\* The elements of an array from i on, acc those before.
ParseElements(txt, i, acc) == ElementsAfter(txt, ParseValue(txt, i), acc)

\* What follows the element r: a comma and more elements, or the bracket.
ElementsAfter(txt, r, acc) ==
  IF ~r.ok THEN SyntaxError
  ELSE IF NextIs(txt, r.next, ",")
    THEN ParseElements(txt, SkipWs(txt, r.next) + 1, Append(acc, r.v))
  ELSE IF NextIs(txt, r.next, "]")
    THEN Parsed(JArr(Append(acc, r.v)), SkipWs(txt, r.next) + 1)
  ELSE SyntaxError

\* The members of an object from i on, acc those before: a key, a colon, a
\* value.
ParseMembers(txt, i, acc) ==
  IF ~NextIs(txt, i, "\"") THEN SyntaxError
  ELSE MemberAfterKey(txt, ParseChars(txt, SkipWs(txt, i) + 1, <<>>), acc)

\* What follows the key: the colon and the member's value.
MemberAfterKey(txt, key, acc) ==
  IF ~key.ok THEN SyntaxError
  ELSE IF ~NextIs(txt, key.next, ":") THEN SyntaxError
  ELSE MembersAfter(txt, key.v.s, ParseValue(txt, SkipWs(txt, key.next) + 1), acc)

\* What follows the value val of the member of that key: a comma and more
\* members, or the brace.
MembersAfter(txt, key, val, acc) ==
  IF ~val.ok THEN SyntaxError
  ELSE IF NextIs(txt, val.next, ",")
    THEN ParseMembers(txt, SkipWs(txt, val.next) + 1, Put(acc, key, val.v))
  ELSE IF NextIs(txt, val.next, "}")
    THEN Parsed(JObj(Put(acc, key, val.v)), SkipWs(txt, val.next) + 1)
  ELSE SyntaxError

\* The text ends after the value r.
Complete(txt, r) == IF r.ok /\ SkipWs(txt, r.next) > Len(txt) THEN r ELSE SyntaxError

\* JSON.parse(text): ok is FALSE where it throws SyntaxError.
JSONparse(txt) == Complete(txt, ParseValue(txt, 1))

(* ---------------------------- localStorage ---------------------------- *)

\* The value of the key: absent (getItem gives null) or a string.
Ausente == [existe |-> FALSE, valor |-> <<>>]
Gravado(txt) == [existe |-> TRUE, valor |-> txt]

\* try { return JSON.parse(...) } catch { return [] }
OuVazia(r) == IF r.ok THEN r.v ELSE JArr(<<>>)

\* pegarListaDeAgendamentos(): null and '' are replaced by '[]'; a text that
\* JSON.parse rejects gives []; any other text gives whatever it parses to.
pegarListaDeAgendamentos(ls) ==
  OuVazia(JSONparse(IF ls.existe /\ ls.valor # <<>> THEN ls.valor ELSE <<"[", "]">>))

\* salvarListaDeAgendamentos(lista): the new value of the key.
salvarListaDeAgendamentos(lista) == Gravado(JSONstringify(lista))

(* ------------------------------- dates -------------------------------- *)

DigitVal(c) ==
  CASE c = "0" -> 0 [] c = "1" -> 1 [] c = "2" -> 2 [] c = "3" -> 3 [] c = "4" -> 4
    [] c = "5" -> 5 [] c = "6" -> 6 [] c = "7" -> 7 [] c = "8" -> 8 [] c = "9" -> 9
DigitChar(n) == <<"0","1","2","3","4","5","6","7","8","9">>[n + 1]

\* String(n).padStart(2,'0') for 0 <= n < 100, and String(n) for a year.
Pad2(n) == <<DigitChar(n \div 10), DigitChar(n % 10)>>
Str4(n) == <<DigitChar(n \div 1000), DigitChar((n \div 100) % 10)>> \o Pad2(n % 100)

IsLeap(y) == (y % 4 = 0 /\ y % 100 # 0) \/ y % 400 = 0

\* Days of month m (0 = January) of year y: new Date(y, m + 1, 0).getDate().
DaysInMonth(y, m) ==
  IF m = 1 THEN (IF IsLeap(y) THEN 29 ELSE 28)
  ELSE IF m \in {3, 5, 8, 10} THEN 30 ELSE 31

DaysBeforeMonth(y, m) ==
  <<0, 31, 59, 90, 120, 151, 181, 212, 243, 273, 304, 334>>[m + 1]
  + (IF m > 1 /\ IsLeap(y) THEN 1 ELSE 0)

LeapsBefore(y) == ((y - 1) \div 4) - ((y - 1) \div 100) + ((y - 1) \div 400)

\* Days from 1970-01-01 to the local midnight of y-(m+1)-d.
DayNumber(y, m, d) ==
  365 * (y - 1970) + (LeapsBefore(y) - LeapsBefore(1970)) + DaysBeforeMonth(y, m) + (d - 1)

InvalidDate == [valid |-> FALSE, ano |-> 0, mes |-> 0, dia |-> 0]

\* new Date(dataISO + 'T00:00:00'): local midnight of a 'YYYY-MM-DD' calendar
\* date; Invalid Date (NaN) for every other text.
NewDate(dataISO) ==
  IF /\ Len(dataISO) = 10
     /\ dataISO[5] = "-" /\ dataISO[8] = "-"
     /\ \A i \in {1, 2, 3, 4, 6, 7, 9, 10} : dataISO[i] \in Digits
  THEN LET y == 1000 * DigitVal(dataISO[1]) + 100 * DigitVal(dataISO[2])
                + 10 * DigitVal(dataISO[3]) + DigitVal(dataISO[4])
           m == 10 * DigitVal(dataISO[6]) + DigitVal(dataISO[7])
           d == 10 * DigitVal(dataISO[9]) + DigitVal(dataISO[10])
       IN IF m \in 1..12 /\ d >= 1 /\ d <= DaysInMonth(y, m - 1)
            THEN [valid |-> TRUE, ano |-> y, mes |-> m - 1, dia |-> d]
            ELSE InvalidDate
  ELSE InvalidDate

\* d.getDay(): 0 = Sunday; 1970-01-01 was a Thursday.  NaN for an Invalid Date
\* (given here as -1, which equals no weekday).
getDay(d) == IF d.valid THEN (DayNumber(d.ano, d.mes, d.dia) + 4) % 7 ELSE -1

\* `${ano}-${String(mes + 1).padStart(2,'0')}-${diaStr}`
FormatISO(ano, mes, dia) == Str4(ano) \o <<"-">> \o Pad2(mes + 1) \o <<"-">> \o Pad2(dia)

(* ---------------------------- validations ----------------------------- *)

dataEstaDentroDoPeriodoPermitido(dataISO) ==
  LET d == NewDate(dataISO) IN
  IF ~d.valid THEN FALSE
  ELSE d.ano = ANO_PERMITIDO /\ d.mes \in Range(MESES_PERMITIDOS)

\* Faulty variant of ehDomingo: the weekday off by one (6 is Saturday).
ehSabado(dataISO) == getDay(NewDate(dataISO)) = 6

ehDomingo(dataISO) == getDay(NewDate(dataISO)) = 0

\* a === b for a value a and a string b.
StrictEq(v, chars) == v.t = "str" /\ v.s = chars

\* The outcome of an expression: its value, or the TypeError it throws.
Ret(v) == [threw |-> FALSE, v |-> v]
TypeError == [threw |-> TRUE, v |-> FALSE]

\* lista.some(item => item.data === dataISO && item.hora === hora) over the
\* items of an array: reading a property of null throws; the scan stops at
\* the first match.
RECURSIVE SomeItem(_, _, _)
SomeItem(items, dataISO, hora) ==
  IF items = <<>> THEN Ret(FALSE)
  ELSE IF Head(items).t = "null" THEN TypeError
  ELSE IF StrictEq(Get(Head(items), <<"d","a","t","a">>), dataISO)
          /\ StrictEq(Get(Head(items), <<"h","o","r","a">>), hora)
    THEN Ret(TRUE)
  ELSE SomeItem(Tail(items), dataISO, hora)

\* lista.some(...): a value without a some method (anything but an array)
\* throws.
Some(lista, dataISO, hora) ==
  IF lista.t # "arr" THEN TypeError ELSE SomeItem(lista.a, dataISO, hora)

\* Faulty variant of horarioEstaOcupado: the two arguments exchanged.
horarioEstaOcupadoTrocado(ls, dataISO, hora) ==
  Some(pegarListaDeAgendamentos(ls), hora, dataISO)

\* horarioEstaOcupado(dataISO, hora) when the key holds ls.
horarioEstaOcupado(ls, dataISO, hora) == Some(pegarListaDeAgendamentos(ls), dataISO, hora)

\* lista.filter(x => x.data === dataISO) over the items of an array.
RECURSIVE FilterData(_, _)
FilterData(items, dataISO) ==
  IF items = <<>> THEN Ret(<<>>)
  ELSE IF Head(items).t = "null" THEN TypeError
  ELSE LET rest == FilterData(Tail(items), dataISO) IN
       IF rest.threw THEN TypeError
       ELSE IF StrictEq(Get(Head(items), <<"d","a","t","a">>), dataISO)
         THEN Ret(<<Head(items)>> \o rest.v)
       ELSE rest

\* lista.filter(...): a value without a filter method throws.
Filter(lista, dataISO) ==
  IF lista.t # "arr" THEN TypeError ELSE FilterData(lista.a, dataISO)

\* pegarListaDeAgendamentos().filter(x => x.data === dataISO)
AgendamentosDoDia(ls, dataISO) == Filter(pegarListaDeAgendamentos(ls), dataISO)

(* --------------------------- customer page ---------------------------- *)

\* Customer-page tabs of the one browser.
Clientes == {"aba1", "aba2"}

\* <option value=value disabled?>value + texto</option>
Opcao(value, texto, disabled) == [value |-> value, texto |-> texto, disabled |-> disabled]

\* Content of #msg: a text, with the number it interpolates (0 when none).
Mensagem(texto, n) == [texto |-> texto, n |-> n]

Vista(opcoes, mensagem) == [opcoes |-> opcoes, msg |-> mensagem]

\* The page as loaded: the select and the message area not yet filled.
VistaInicial == Vista(<<>>, Mensagem("", 0))

\* ocupados.includes(h), ocupados the hora of each record of the day.
Inclui(doDia, h) == \E i \in DOMAIN doDia : StrictEq(Get(doDia[i], <<"h","o","r","a">>), h)

\* Lines 129-153: the select filled with the nine times, those of ocupados
\* disabled, and the message; when the filter threw, the select stays
\* emptied.
ListaDeHorarios(ocupados, vista) ==
  IF ocupados.threw THEN [vista |-> Vista(<<>>, vista.msg), threw |-> TRUE]
  ELSE [vista |->
          Vista([i \in DOMAIN LISTA_DE_HORARIOS_FIXOS |->
                   IF Inclui(ocupados.v, LISTA_DE_HORARIOS_FIXOS[i])
                     THEN Opcao(LISTA_DE_HORARIOS_FIXOS[i], " - ocupado", TRUE)
                     ELSE Opcao(LISTA_DE_HORARIOS_FIXOS[i], "", FALSE)],
                IF Len(ocupados.v) > 0
                  THEN Mensagem("horario(s) ocupado(s) nesta data.", Len(ocupados.v))
                  ELSE Mensagem("Todos os horarios disponiveis.", 0)),
        threw |-> FALSE]

\* window.atualizarListaDeHorarios(dataISO) on a page whose select and
\* message area hold vista: the new content, and whether it threw (after the
\* select had been emptied).
atualizarListaDeHorarios(ls, dataISO, vista) ==
  IF dataISO = <<>>
    THEN [vista |-> Vista(<<Opcao(<<>>, "Selecione uma data para ver horarios", TRUE)>>,
                          Mensagem("(Domingos e Feriados bloqueados).", 0)),
          threw |-> FALSE]
  ELSE IF ~dataEstaDentroDoPeriodoPermitido(dataISO)
    THEN [vista |-> Vista(<<Opcao(<<>>, "Data fora do periodo permitido", TRUE)>>,
                          Mensagem("Escolha uma data dentro do periodo permitido.", 0)),
          threw |-> FALSE]
  ELSE IF ehDomingo(dataISO)
    THEN [vista |-> Vista(<<Opcao(<<>>, "Domingo (nao permitido)", TRUE)>>,
                          Mensagem("Domingo nao e permitido para agendamento.", 0)),
          threw |-> FALSE]
  ELSE ListaDeHorarios(AgendamentosDoDia(ls, dataISO), vista)

\* The values the submit handler reads from the five fields.
Campos(nome, telefone, servico, data, hora) ==
  [nome |-> nome, telefone |-> telefone, servico |-> servico, data |-> data, hora |-> hora]

ALERTA_CAMPOS == "Preencha todos os campos obrigatorios (nome, telefone, data e hora)."
ALERTA_PERIODO == "Escolha uma data em Outubro, Novembro ou Dezembro de 2025."
ALERTA_DOMINGO == "Domingos nao sao permitidos. Escolha outra data."
ALERTA_OCUPADO == "Esse horario ja esta ocupado. Escolha outro horario."
ALERTA_SUCESSO == "Agendamento salvo com sucesso!"
SemAlerta == ""

\* Line 198: if (horarioEstaOcupado(data, hora)) { alert(...); ... }
Ocupacao(ocupado) ==
  IF ocupado.threw THEN "TypeError"
  ELSE IF ocupado.v THEN ALERTA_OCUPADO
  ELSE SemAlerta

\* Faulty variant of Validacao: the Sunday check before the period check.
ValidacaoDomingoPrimeiro(ls, f) ==
  IF f.nome = <<>> \/ f.telefone = <<>> \/ f.data = <<>> \/ f.hora = <<>> THEN ALERTA_CAMPOS
  ELSE IF ehDomingo(f.data) THEN ALERTA_DOMINGO
  ELSE IF ~dataEstaDentroDoPeriodoPermitido(f.data) THEN ALERTA_PERIODO
  ELSE Ocupacao(horarioEstaOcupado(ls, f.data, f.hora))

\* The checks of the submit handler, in their order: the alert of the first
\* that fails, SemAlerta when all pass, "TypeError" when the occupancy check
\* throws.
Validacao(ls, f) ==
  IF f.nome = <<>> \/ f.telefone = <<>> \/ f.data = <<>> \/ f.hora = <<>> THEN ALERTA_CAMPOS
  ELSE IF ~dataEstaDentroDoPeriodoPermitido(f.data) THEN ALERTA_PERIODO
  ELSE IF ehDomingo(f.data) THEN ALERTA_DOMINGO
  ELSE Ocupacao(horarioEstaOcupado(ls, f.data, f.hora))

\* Faulty variant of novoAgendamento: servico given the value of telefone.
novoAgendamentoTrocado(f) ==
  JObj(<< Member(<<"n","o","m","e">>, JStr(f.nome)),
          Member(<<"t","e","l","e","f","o","n","e">>, JStr(f.telefone)),
          Member(<<"s","e","r","v","i","c","o">>, JStr(f.telefone)),
          Member(<<"d","a","t","a">>, JStr(f.data)),
          Member(<<"h","o","r","a">>, JStr(f.hora)) >>)

\* Lines 204-210.
novoAgendamento(f) ==
  JObj(<< Member(<<"n","o","m","e">>, JStr(f.nome)),
          Member(<<"t","e","l","e","f","o","n","e">>, JStr(f.telefone)),
          Member(<<"s","e","r","v","i","c","o">>, JStr(f.servico)),
          Member(<<"d","a","t","a">>, JStr(f.data)),
          Member(<<"h","o","r","a">>, JStr(f.hora)) >>)

\* listaAtual.push(novoAgendamento): only an array has push.
Push(lista, item) == IF lista.t = "arr" THEN Ret(JArr(Append(lista.a, item))) ELSE TypeError

(* ------------------------------- state -------------------------------- *)

VARIABLES
  armazenamento,    \* localStorage: the value of CHAVE_ARMAZENAMENTO
  vista,            \* per customer tab: the options of #hora and the text of #msg
  alerta,           \* the alert() shown by the handler that ran last (SemAlerta: none)
  erro,             \* whether the handler that ran last ended by an uncaught TypeError
  emCurso,          \* per customer tab: how far its submit handler has run, and its locals
  ultimo,           \* history: the handler that ran last, what it was given, the value of
                    \* the key when it began, and the records its write overwrote
  admAberta,        \* whether the administrator page is open in a tab
  mesAtualExibido,  \* the month the administrator page displays
  calendario,       \* content of #calendar
  detalhe,          \* #day-details: its data-date and its rows
  fila              \* 'storage' events queued for the administrator page (their keys)

vars == <<armazenamento, vista, alerta, erro, emCurso, ultimo,
          admAberta, mesAtualExibido, calendario, detalhe, fila>>

cliente == <<vista, alerta, erro, emCurso>>
adm == <<mesAtualExibido, calendario, detalhe>>

CamposVazios == Campos(<<>>, <<>>, <<>>, <<>>, <<>>)
Ocioso == [pc |-> "ocioso", campos |-> CamposVazios, listaAtual |-> JNull, perdidos |-> <<>>]

Ultimo(op, aba, f, antes, perdidos) ==
  [op |-> op, aba |-> aba, campos |-> f, antes |-> antes, perdidos |-> perdidos]

(* --------------------------- submit handler --------------------------- *)

\* The select and the message of tab c as atualizarListaDeHorarios left them.
Redesenhar(c, r) ==
  /\ vista' = [vista EXCEPT ![c] = r.vista]
  /\ erro' = r.threw

\* A submit that ends at one of the four alerts (lines 184-201); on the
\* occupancy alert the list of times is drawn again.
Rejeitar(c, f, v) ==
  /\ alerta' = v
  /\ IF v = ALERTA_OCUPADO
       THEN Redesenhar(c, atualizarListaDeHorarios(armazenamento, f.data, vista[c]))
       ELSE /\ vista' = vista
            /\ erro' = FALSE
  /\ UNCHANGED <<armazenamento, fila>>

\* A handler that ends by an uncaught TypeError before it changed anything.
Lancar ==
  /\ alerta' = SemAlerta
  /\ erro' = TRUE
  /\ UNCHANGED <<armazenamento, vista, fila>>

\* Lines 215-223: the list is saved, the success alert shown, the form reset
\* and the list of times drawn again from the key as it now is.  The write
\* queues a 'storage' event for the other pages that are open.
Gravar(c, f, lista) ==
  /\ admAberta => Len(fila) < MaxEventos
  /\ armazenamento' = salvarListaDeAgendamentos(lista)
  /\ alerta' = ALERTA_SUCESSO
  /\ Redesenhar(c, atualizarListaDeHorarios(armazenamento', f.data, vista[c]))
  /\ fila' = IF admAberta THEN Append(fila, CHAVE_ARMAZENAMENTO) ELSE fila

\* Lines 213-223 with listaAtual the list just read.
Anexar(c, f, listaAtual) ==
  IF Push(listaAtual, novoAgendamento(f)).threw THEN Lancar
  ELSE /\ Len(listaAtual.a) < MaxAgendamentos
       /\ Gravar(c, f, Push(listaAtual, novoAgendamento(f)).v)

\* Lines 184-223 with v the outcome of the checks.
Concluir(c, f, v) ==
  IF v = "TypeError" THEN Lancar
  ELSE IF v # SemAlerta THEN Rejeitar(c, f, v)
  ELSE Anexar(c, f, pegarListaDeAgendamentos(armazenamento))

\* The submit handler run to its end without another tab's step in between.
Submit(c, f) ==
  /\ emCurso[c].pc = "ocioso"
  /\ ultimo' = Ultimo("submit", c, f, armazenamento, <<>>)
  /\ Concluir(c, f, Validacao(armazenamento, f))
  /\ UNCHANGED <<emCurso, admAberta, adm>>

\* Lines 184-201 with v the outcome of the checks, the handler stopping
\* before line 213 when all pass.
Validar(c, f, v) ==
  IF v = "TypeError" THEN Lancar /\ emCurso' = emCurso
  ELSE IF v # SemAlerta THEN Rejeitar(c, f, v) /\ emCurso' = emCurso
  ELSE /\ emCurso' = [emCurso EXCEPT ![c] = [pc |-> "validado", campos |-> f,
                                              listaAtual |-> JNull, perdidos |-> <<>>]]
       /\ alerta' = SemAlerta
       /\ erro' = FALSE
       /\ UNCHANGED <<armazenamento, vista, fila>>

\* The same handler as three steps, another tab's steps able to fall between
\* them.  First lines 175-201: the four checks.
SubmitValidar(c, f) ==
  /\ emCurso[c].pc = "ocioso"
  /\ ultimo' = Ultimo("passo", c, CamposVazios, armazenamento, <<>>)
  /\ Validar(c, f, Validacao(armazenamento, f))
  /\ UNCHANGED <<admAberta, adm>>

\* Lines 213-214 with listaAtual the list just read.
Ler(c, listaAtual) ==
  IF Push(listaAtual, novoAgendamento(emCurso[c].campos)).threw
    THEN Lancar /\ emCurso' = [emCurso EXCEPT ![c] = Ocioso]
    ELSE /\ Len(listaAtual.a) < MaxAgendamentos
         /\ emCurso' = [emCurso EXCEPT
                          ![c].pc = "lido",
                          ![c].listaAtual = Push(listaAtual, novoAgendamento(emCurso[c].campos)).v]
         /\ alerta' = SemAlerta
         /\ erro' = FALSE
         /\ UNCHANGED <<armazenamento, vista, fila>>

\* Then lines 213-214: the list is read again and the new record pushed.
SubmitLer(c) ==
  /\ emCurso[c].pc = "validado"
  /\ ultimo' = Ultimo("passo", c, CamposVazios, armazenamento, <<>>)
  /\ Ler(c, pegarListaDeAgendamentos(armazenamento))
  /\ UNCHANGED <<admAberta, adm>>

\* Faulty variant of SubmitSalvar: the list is read once more and the record
\* pushed onto what the key holds at the time of the write.
SubmitSalvarMesclando(c) ==
  /\ emCurso[c].pc = "lido"
  /\ ultimo' = Ultimo("salvar", c, emCurso[c].campos, armazenamento, emCurso[c].perdidos)
  /\ Gravar(c, emCurso[c].campos,
            Push(pegarListaDeAgendamentos(armazenamento), novoAgendamento(emCurso[c].campos)).v)
  /\ emCurso' = [d \in Clientes |->
                   IF d = c THEN Ocioso
                   ELSE IF emCurso[d].pc = "lido"
                     THEN [emCurso[d] EXCEPT
                             !.perdidos = Append(@, novoAgendamento(emCurso[c].campos))]
                   ELSE emCurso[d]]
  /\ UNCHANGED <<admAberta, adm>>

\* Then lines 215-223: the list is written back.  Each other tab that has
\* read the list and not yet written is noted to have missed this record.
SubmitSalvar(c) ==
  /\ emCurso[c].pc = "lido"
  /\ ultimo' = Ultimo("salvar", c, emCurso[c].campos, armazenamento, emCurso[c].perdidos)
  /\ Gravar(c, emCurso[c].campos, emCurso[c].listaAtual)
  /\ emCurso' = [d \in Clientes |->
                   IF d = c THEN Ocioso
                   ELSE IF emCurso[d].pc = "lido"
                     THEN [emCurso[d] EXCEPT
                             !.perdidos = Append(@, novoAgendamento(emCurso[c].campos))]
                   ELSE emCurso[d]]
  /\ UNCHANGED <<admAberta, adm>>

\* The 'change' listener of the date field.
MudarData(c, dataISO) ==
  /\ emCurso[c].pc = "ocioso"
  /\ Redesenhar(c, atualizarListaDeHorarios(armazenamento, dataISO, vista[c]))
  /\ alerta' = SemAlerta
  /\ ultimo' = Ultimo("data", c, Campos(<<>>, <<>>, <<>>, dataISO, <<>>), armazenamento, <<>>)
  /\ UNCHANGED <<armazenamento, emCurso, admAberta, adm, fila>>

(* ------------------------- administrator page ------------------------ *)

\* #calendar: not yet drawn, or the month drawn and, for each of its days,
\* -1 for a placeholder cell and else the number of appointments shown (0: no
\* badge, the cell not marked occupied).
CalendarioVazio == [renderizado |-> FALSE, mes |-> 0, dias |-> <<>>]

\* #day-details: data-date ('' until a day was shown), the rows of the table,
\* whether the empty-state paragraph stands in place of the table.
DetalheInicial == [date |-> <<>>, linhas |-> <<>>, vazio |-> FALSE, visivel |-> FALSE]

\* What the loop of mostrarCalendarioAdministrador computes for day dia of
\* month mes whatever the list holds: dataISO, and diaSemana
\* (objData.getDay()).
DiaDoCalendario(mes, dia) ==
  [dataISO |-> FormatISO(ANO_PERMITIDO, mes, dia),
   diaSemana |-> getDay(NewDate(FormatISO(ANO_PERMITIDO, mes, dia)))]

\* The same, tabulated for the allowed months and the two beside them.
GradeDoMes ==
  [mes \in 8..12 |->
     [dia \in 1..DaysInMonth(ANO_PERMITIDO, mes) |-> DiaDoCalendario(mes, dia)]]

\* agNoDia.length of lines 289-293.
Contagem(agNoDia) == IF agNoDia.threw THEN TypeError ELSE Ret(Len(agNoDia.v))

\* One pass of the loop of lines 274-300: a placeholder for a Sunday (-1),
\* else the cell with the number of the day's appointments.
Celula(lista, d) ==
  IF d.diaSemana = 0 THEN Ret(-1) ELSE Contagem(Filter(lista, d.dataISO))

\* The loop over the days of the month.
Celulas(lista, grade) == [dia \in DOMAIN grade |-> Celula(lista, grade[dia])]

\* #calendar after the loop; a pass that throws leaves it as it was.
Calendario(celulas, mes, atual) ==
  IF \E dia \in DOMAIN celulas : celulas[dia].threw
    THEN [cal |-> atual, threw |-> TRUE]
    ELSE [cal |-> [renderizado |-> TRUE, mes |-> mes,
                   dias |-> [dia \in DOMAIN celulas |-> celulas[dia].v]],
          threw |-> FALSE]

\* window.mostrarCalendarioAdministrador(): the new content of #calendar; it
\* throws, leaving #calendar as it was, when the first day that is no Sunday
\* cannot be filtered.
mostrarCalendarioAdministrador(ls, mes, atual) ==
  Calendario(Celulas(pegarListaDeAgendamentos(ls), GradeDoMes[mes]), mes, atual)

\* Array.prototype.sort with the comparator
\* (a,b) => LISTA_DE_HORARIOS_FIXOS.indexOf(a.hora) - LISTA_DE_HORARIOS_FIXOS.indexOf(b.hora):
\* a stable sort, here by insertion.
IndiceDaHora(item) ==
  IF Get(item, <<"h","o","r","a">>).t = "str"
    THEN IndexOf(LISTA_DE_HORARIOS_FIXOS, Get(item, <<"h","o","r","a">>).s)
    ELSE -1

RECURSIVE Inserir(_, _)
Inserir(ordenada, item) ==
  IF ordenada = <<>> THEN <<item>>
  ELSE IF IndiceDaHora(item) - IndiceDaHora(ordenada[Len(ordenada)]) < 0
    THEN Append(Inserir(SubSeq(ordenada, 1, Len(ordenada) - 1), item), ordenada[Len(ordenada)])
  ELSE Append(ordenada, item)

\* Faulty variant of OrdenarPorHorario: the list left in the order stored.
SemOrdenar(items) == items

RECURSIVE OrdenarPorHorario(_)
OrdenarPorHorario(items) ==
  IF items = <<>> THEN <<>>
  ELSE Inserir(OrdenarPorHorario(SubSeq(items, 1, Len(items) - 1)), items[Len(items)])

\* <tr><td>${item.hora}</td><td>${item.nome}</td><td>${item.servico}</td></tr>
Linha(item) ==
  [hora |-> Get(item, <<"h","o","r","a">>),
   nome |-> Get(item, <<"n","o","m","e">>),
   servico |-> Get(item, <<"s","e","r","v","i","c","o">>)]

\* Lines 322-337: #day-details for the sorted list of the day.
Tabela(lista, dataISO) ==
  [date |-> dataISO,
   linhas |-> [i \in DOMAIN lista |-> Linha(lista[i])],
   vazio |-> lista = <<>>,
   visivel |-> TRUE]

\* Lines 319-337 with doDia the outcome of the filter.
Detalhes(doDia, dataISO, atual) ==
  IF doDia.threw THEN [det |-> atual, threw |-> TRUE]
  ELSE [det |-> Tabela(OrdenarPorHorario(doDia.v), dataISO), threw |-> FALSE]

\* window.mostrarDetalhesDoDia(dataISO): the new #day-details; when the
\* filter throws, data-date has not been set yet and nothing changes.
mostrarDetalhesDoDia(ls, dataISO, atual) ==
  Detalhes(AgendamentosDoDia(ls, dataISO), dataISO, atual)

\* #calendar as mostrarCalendarioAdministrador left it.
DesenharCalendario(r) ==
  /\ calendario' = r.cal
  /\ erro' = r.threw

\* #day-details as mostrarDetalhesDoDia left it.
DesenharDetalhes(r) ==
  /\ detalhe' = r.det
  /\ erro' = r.threw

\* Faulty variant of MudarMes: any month of the year accepted, not only the
\* allowed ones.
MudarMesDoAno(delta) ==
  /\ admAberta
  /\ ultimo' = Ultimo("mudarMes", "adm", CamposVazios, armazenamento, <<>>)
  /\ IF mesAtualExibido + delta \in 0..11
       THEN /\ mesAtualExibido' = mesAtualExibido + delta
            /\ DesenharCalendario(
                 mostrarCalendarioAdministrador(armazenamento, mesAtualExibido', calendario))
       ELSE /\ UNCHANGED <<mesAtualExibido, calendario>>
            /\ erro' = FALSE
  /\ alerta' = SemAlerta
  /\ UNCHANGED <<armazenamento, vista, emCurso, admAberta, detalhe, fila>>

\* window.mudarMesAtual(delta)
MudarMes(delta) ==
  /\ admAberta
  /\ ultimo' = Ultimo("mudarMes", "adm", CamposVazios, armazenamento, <<>>)
  /\ IF mesAtualExibido + delta \in Range(MESES_PERMITIDOS)
       THEN /\ mesAtualExibido' = mesAtualExibido + delta
            /\ DesenharCalendario(
                 mostrarCalendarioAdministrador(armazenamento, mesAtualExibido', calendario))
       ELSE /\ UNCHANGED <<mesAtualExibido, calendario>>
            /\ erro' = FALSE
  /\ alerta' = SemAlerta
  /\ UNCHANGED <<armazenamento, vista, emCurso, admAberta, detalhe, fila>>

\* The page calls window.mostrarCalendarioAdministrador() itself.
MostrarCalendario ==
  /\ admAberta
  /\ DesenharCalendario(
       mostrarCalendarioAdministrador(armazenamento, mesAtualExibido, calendario))
  /\ alerta' = SemAlerta
  /\ ultimo' = Ultimo("adm", "adm", CamposVazios, armazenamento, <<>>)
  /\ UNCHANGED <<armazenamento, vista, emCurso, admAberta, mesAtualExibido, detalhe, fila>>

\* A click on the cell of a day of the calendar as drawn; placeholder cells
\* have no listener.
CliqueDia(dia) ==
  /\ admAberta
  /\ calendario.renderizado
  /\ dia \in DOMAIN calendario.dias
  /\ calendario.dias[dia] # -1
  /\ DesenharDetalhes(
       mostrarDetalhesDoDia(armazenamento, GradeDoMes[calendario.mes][dia].dataISO, detalhe))
  /\ ultimo' = Ultimo("detalhes", "adm",
                      Campos(<<>>, <<>>, <<>>, GradeDoMes[calendario.mes][dia].dataISO, <<>>),
                      armazenamento, <<>>)
  /\ alerta' = SemAlerta
  /\ UNCHANGED <<armazenamento, vista, emCurso, admAberta, mesAtualExibido, calendario, fila>>

(* --------------------------- cross-tab sync --------------------------- *)

OUTRA_CHAVE == "outra_chave"

\* Lines 347-351 with c the outcome of mostrarCalendarioAdministrador():
\* the details are drawn again when a day had been shown.
Atualizar(c) ==
  /\ calendario' = c.cal
  /\ IF c.threw
       THEN detalhe' = detalhe /\ erro' = TRUE
       ELSE IF detalhe.date # <<>>
         THEN DesenharDetalhes(mostrarDetalhesDoDia(armazenamento, detalhe.date, detalhe))
         ELSE detalhe' = detalhe /\ erro' = FALSE

\* Faulty variant of StorageEvent: the calendar drawn again, the details of
\* the day never.
StorageEventSoCalendario ==
  /\ admAberta
  /\ fila # <<>>
  /\ fila' = Tail(fila)
  /\ ultimo' = Ultimo(IF Head(fila) = CHAVE_ARMAZENAMENTO THEN "storage" ELSE "adm", "adm",
                      CamposVazios, armazenamento, <<>>)
  /\ IF Head(fila) = CHAVE_ARMAZENAMENTO
       THEN DesenharCalendario(
              mostrarCalendarioAdministrador(armazenamento, mesAtualExibido, calendario))
       ELSE /\ UNCHANGED calendario
            /\ erro' = FALSE
  /\ detalhe' = detalhe
  /\ alerta' = SemAlerta
  /\ UNCHANGED <<armazenamento, vista, emCurso, admAberta, mesAtualExibido>>

\* The 'storage' listener, given the oldest queued event.
StorageEvent ==
  /\ admAberta
  /\ fila # <<>>
  /\ fila' = Tail(fila)
  /\ ultimo' = Ultimo(IF Head(fila) = CHAVE_ARMAZENAMENTO THEN "storage" ELSE "adm", "adm",
                      CamposVazios, armazenamento, <<>>)
  /\ IF Head(fila) = CHAVE_ARMAZENAMENTO
       THEN Atualizar(mostrarCalendarioAdministrador(armazenamento, mesAtualExibido, calendario))
       ELSE /\ UNCHANGED <<calendario, detalhe>>
            /\ erro' = FALSE
  /\ alerta' = SemAlerta
  /\ UNCHANGED <<armazenamento, vista, emCurso, admAberta, mesAtualExibido>>

\* Another script of the origin writes another key of localStorage: the
\* administrator page is sent the event.
OutraChave ==
  /\ admAberta
  /\ Len(fila) < MaxEventos
  /\ fila' = Append(fila, OUTRA_CHAVE)
  /\ ultimo' = Ultimo("adm", "adm", CamposVazios, armazenamento, <<>>)
  /\ UNCHANGED <<armazenamento, cliente, admAberta, adm>>

(* ----------------------------- round trip ----------------------------- *)

\* salvarListaDeAgendamentos(pegarListaDeAgendamentos()), run in the
\* administrator page (a page is not sent the event of its own write).
SalvarCarregado ==
  /\ armazenamento' = salvarListaDeAgendamentos(pegarListaDeAgendamentos(armazenamento))
  /\ ultimo' = Ultimo("roundtrip", "adm", CamposVazios, armazenamento, <<>>)
  /\ alerta' = SemAlerta
  /\ erro' = FALSE
  /\ UNCHANGED <<vista, emCurso, admAberta, adm, fila>>

(* ------------------------------ inputs -------------------------------- *)

Nomes == {<<>>, <<"A">>}
Telefones == {<<>>, <<"1">>}
Servicos == {<<>>, <<"C">>}

\* What a date field holds: nothing, or a calendar date.
Domingo0510 == <<"2","0","2","5","-","1","0","-","0","5">>
Segunda0610 == <<"2","0","2","5","-","1","0","-","0","6">>
Quinta0101 == <<"2","0","2","6","-","0","1","-","0","1">>
Domingo2809 == <<"2","0","2","5","-","0","9","-","2","8">>
Datas == {<<>>, Domingo0510, Segunda0610, Quinta0101, Domingo2809}

\* What the select holds: nothing, or one of the fixed times.
Horas == {<<>>, LISTA_DE_HORARIOS_FIXOS[1], LISTA_DE_HORARIOS_FIXOS[2]}

Formularios ==
  {Campos(n, t, s, d, h) : n \in Nomes, t \in Telefones, s \in Servicos, d \in Datas, h \in Horas}

(* --------------------------- specifications --------------------------- *)

Quinta0611 == <<"2","0","2","5","-","1","1","-","0","6">>

\* Forms that two tabs submit against each other.
FormulariosAbas ==
  {Campos(n, <<"1">>, <<"C">>, Segunda0610, h) :
     n \in {<<"A">>, <<"B">>}, h \in {LISTA_DE_HORARIOS_FIXOS[1], LISTA_DE_HORARIOS_FIXOS[2]}}

\* Forms of two tabs whose handlers interleave, each tab a customer of its
\* own name.
FormulariosConcorrentes(c) ==
  {Campos(IF c = "aba1" THEN <<"A">> ELSE <<"B">>, <<"1">>, <<"C">>, Segunda0610, h) :
     h \in {LISTA_DE_HORARIOS_FIXOS[1], LISTA_DE_HORARIOS_FIXOS[2]}}

\* Forms submitted while the administrator page is open; the later time first.
FormulariosAdm ==
  {Campos(<<"A">>, <<"1">>, <<"C">>, Segunda0610, LISTA_DE_HORARIOS_FIXOS[2]),
   Campos(<<"B">>, <<"1">>, <<>>, Segunda0610, LISTA_DE_HORARIOS_FIXOS[1]),
   Campos(<<"A">>, <<"1">>, <<"C">>, Quinta0611, LISTA_DE_HORARIOS_FIXOS[1])}

\* Days of the displayed month the administrator clicks: the 6th, which is
\* Monday 2025-10-06, Thursday 2025-11-06 or Saturday 2025-12-06.
DiasClique == {6}

InitCom(ls, aberta) ==
  /\ armazenamento = ls
  /\ vista = [c \in Clientes |-> VistaInicial]
  /\ alerta = SemAlerta
  /\ erro = FALSE
  /\ emCurso = [c \in Clientes |-> Ocioso]
  /\ ultimo = Ultimo("nenhum", "", CamposVazios, ls, <<>>)
  /\ admAberta = aberta
  /\ mesAtualExibido = 9
  /\ calendario = CalendarioVazio
  /\ detalhe = DetalheInicial
  /\ fila = <<>>

\* One customer tab, the store empty at first, any field values.
Init == InitCom(Ausente, FALSE)

Next ==
  \/ \E f \in Formularios : Submit("aba1", f)
  \/ \E d \in Datas : MudarData("aba1", d)

Spec == Init /\ [][Next]_vars

\* Two customer tabs, each handler run to its end before the next begins.
NextAbas ==
  \/ \E c \in Clientes, f \in FormulariosAbas : Submit(c, f)
  \/ \E c \in Clientes : MudarData(c, Segunda0610)

SpecAbas == Init /\ [][NextAbas]_vars

\* Two customer tabs whose submit handlers interleave.
NextConcorrente ==
  \/ \E c \in Clientes : \E f \in FormulariosConcorrentes(c) : SubmitValidar(c, f)
  \/ \E c \in Clientes : SubmitLer(c)
  \/ \E c \in Clientes : SubmitSalvar(c)

SpecConcorrente == Init /\ [][NextConcorrente]_vars

\* The administrator page open beside one customer tab.
InitAdm == InitCom(Ausente, TRUE)

NextAdm ==
  \/ \E f \in FormulariosAdm : Submit("aba1", f)
  \/ \E delta \in {-1, 1} : MudarMes(delta)
  \/ MostrarCalendario
  \/ \E dia \in DiasClique : CliqueDia(dia)
  \/ StorageEvent
  \/ OutraChave

SpecAdm == InitAdm /\ [][NextAdm]_vars

\* Values the key can hold when the pages load: nothing, texts that are no
\* JSON, JSON that is no list, lists of other things than records, and lists
\* of records as another writer formats them and as the program writes them
\* (the last: one record whose name is a quote and a backslash).
ValoresPersistidos ==
  { Ausente,
    Gravado(<<>>),
    Gravado(<<"[", "]">>),
    Gravado(<<" ", "[", " ", "]", " ">>),
    Gravado(<<"x">>),
    Gravado(<<"[", "{">>),
    Gravado(<<"n", "u", "l", "l">>),
    Gravado(<<"4", "2">>),
    Gravado(<<"{", "}">>),
    Gravado(<<"\"", "a", "\"">>),
    Gravado(<<"[", "n", "u", "l", "l", "]">>),
    Gravado(<<"[", "4", "2", "]">>),
    Gravado(<<"[", " ", "{", "\"", "h", "o", "r", "a", "\"", ":", " ", "\"", "x", "\"", ",",
              " ", "\"", "h", "o", "r", "a", "\"", ":", "7", "}", " ", "]">>),
    Gravado(<<"[", "{", "\"", "n", "o", "m", "e", "\"", ":", "\"", "\\", "\"", "\\", "\\",
              "\"", ",", "\"", "t", "e", "l", "e", "f", "o", "n", "e", "\"", ":", "\"", "1",
              "\"", ",", "\"", "s", "e", "r", "v", "i", "c", "o", "\"", ":", "\"", "\"",
              ",", "\"", "d", "a", "t", "a", "\"", ":", "\"", "2", "0", "2", "5", "-", "1",
              "0", "-", "0", "6", "\"", ",", "\"", "h", "o", "r", "a", "\"", ":", "\"", "1",
              "0", ":", "0", "0", "\"", "}", "]">>) }

InitArmazenado == \E ls \in ValoresPersistidos : InitCom(ls, TRUE)

FormulariosArmazenado ==
  {Campos(<<"A">>, <<"1">>, <<"C">>, Segunda0610, LISTA_DE_HORARIOS_FIXOS[1])}

NextArmazenado ==
  \/ SalvarCarregado
  \/ \E f \in FormulariosArmazenado : Submit("aba1", f)
  \/ MudarData("aba1", Segunda0610)
  \/ MostrarCalendario
  \/ \E dia \in DiasClique : CliqueDia(dia)
  \/ StorageEvent

SpecArmazenado == InitArmazenado /\ [][NextArmazenado]_vars

\* The browser takes the oldest queued event off the queue to run the
\* listener with it; the only step of the page that does is StorageEvent.
Entrega == fila # <<>> /\ fila' = Tail(fila)

\* Forms submitted in another tab while the administrator page follows the
\* store: two times of one day, the later first.
FormulariosSync ==
  {Campos(<<"A">>, <<"1">>, <<"C">>, Segunda0610, LISTA_DE_HORARIOS_FIXOS[2]),
   Campos(<<"B">>, <<"1">>, <<>>, Segunda0610, LISTA_DE_HORARIOS_FIXOS[1])}

NextSync ==
  \/ \E f \in FormulariosSync : Submit("aba1", f)
  \/ \E delta \in {-1, 1} : MudarMes(delta)
  \/ MostrarCalendario
  \/ \E dia \in DiasClique : CliqueDia(dia)
  \/ StorageEvent
  \/ OutraChave

\* A queued 'storage' event is dispatched: the browser runs the listener of
\* every event it has queued.
FairSpecSync == InitAdm /\ [][NextSync]_vars /\ WF_fila(Entrega)

(* ----------------------------- properties ----------------------------- *)

\* The stored list as pegarListaDeAgendamentos reads it, and its records.
Registros(ls) ==
  IF pegarListaDeAgendamentos(ls).t = "arr" THEN pegarListaDeAgendamentos(ls).a ELSE <<>>

DataDe(r) == Get(r, <<"d","a","t","a">>)
HoraDe(r) == Get(r, <<"h","o","r","a">>)

\* C1: starting from an empty store, with the submit handlers of the tabs
\* each run to its end before the next, no two records of the stored list
\* have the same date and the same time.
C1_SemConflito ==
  \A i, j \in DOMAIN Registros(armazenamento) :
     i # j => ~(/\ DataDe(Registros(armazenamento)[i]) = DataDe(Registros(armazenamento)[j])
                /\ HoraDe(Registros(armazenamento)[i]) = HoraDe(Registros(armazenamento)[j]))

\* Two records are stored and the submit of a tab for a time already taken
\* was turned down.
C1_Testemunha ==
  /\ ultimo.op = "submit"
  /\ alerta = ALERTA_OCUPADO
  /\ Len(Registros(armazenamento)) = 2

\* The checks as the specification words them, on the characters of the
\* fields.
FaltaCampo(f) == f.nome = <<>> \/ f.telefone = <<>> \/ f.data = <<>> \/ f.hora = <<>>

NoPeriodo(d) ==
  /\ Len(d) = 10
  /\ SubSeq(d, 1, 5) = <<"2","0","2","5","-">>
  /\ SubSeq(d, 6, 7) \in {<<"1","0">>, <<"1","1">>, <<"1","2">>}

Dia2025(m1, m2, d1, d2) == <<"2","0","2","5","-", m1, m2, "-", d1, d2>>

\* The Sundays of October, November and December 2025.
DomingosDoPeriodo ==
  { Dia2025("1","0","0","5"), Dia2025("1","0","1","2"), Dia2025("1","0","1","9"),
    Dia2025("1","0","2","6"), Dia2025("1","1","0","2"), Dia2025("1","1","0","9"),
    Dia2025("1","1","1","6"), Dia2025("1","1","2","3"), Dia2025("1","1","3","0"),
    Dia2025("1","2","0","7"), Dia2025("1","2","1","4"), Dia2025("1","2","2","1"),
    Dia2025("1","2","2","8") }

JaOcupado(ls, f) ==
  \E i \in DOMAIN Registros(ls) :
     /\ DataDe(Registros(ls)[i]) = JStr(f.data)
     /\ HoraDe(Registros(ls)[i]) = JStr(f.hora)

\* The message a submit of f is to end with when the key holds ls.
AlertaEsperado(ls, f) ==
  IF FaltaCampo(f) THEN ALERTA_CAMPOS
  ELSE IF ~NoPeriodo(f.data) THEN ALERTA_PERIODO
  ELSE IF f.data \in DomingosDoPeriodo THEN ALERTA_DOMINGO
  ELSE IF JaOcupado(ls, f) THEN ALERTA_OCUPADO
  ELSE ALERTA_SUCESSO

\* C2: a submit is turned down by the first check that fails, in the order
\* required fields, allowed period, Sunday, occupied time; it shows the
\* message of that check alone, the four messages differ, and the key holds
\* after the submit what it held before.
C2_PrimeiraFalha ==
  /\ Cardinality({ALERTA_CAMPOS, ALERTA_PERIODO, ALERTA_DOMINGO, ALERTA_OCUPADO}) = 4
  /\ ultimo.op = "submit" =>
       /\ alerta = AlertaEsperado(ultimo.antes, ultimo.campos)
       /\ alerta # ALERTA_SUCESSO => armazenamento = ultimo.antes

\* A submit for a Sunday outside the period, fields filled, the store not
\* empty: it was turned down with the message of the period.
C2_Testemunha ==
  /\ ultimo.op = "submit"
  /\ ~FaltaCampo(ultimo.campos)
  /\ ultimo.campos.data = Domingo2809
  /\ alerta = ALERTA_PERIODO
  /\ Len(Registros(armazenamento)) = 1

\* The record r carries the five fields of f.
Carrega(r, f) ==
  /\ r.t = "obj"
  /\ Len(r.a) = 5
  /\ Get(r, <<"n","o","m","e">>) = JStr(f.nome)
  /\ Get(r, <<"t","e","l","e","f","o","n","e">>) = JStr(f.telefone)
  /\ Get(r, <<"s","e","r","v","i","c","o">>) = JStr(f.servico)
  /\ DataDe(r) = JStr(f.data)
  /\ HoraDe(r) = JStr(f.hora)

\* C3: in one tab, a submit that passes the four checks leaves the stored
\* list as it was with one record more at its end, which carries the name,
\* phone, service, date and time submitted; every other handler, and a submit
\* turned down, leaves the stored list as it was.
C3_AnexaUm ==
  ultimo.op \in {"submit", "data"} =>
    IF ultimo.op = "submit" /\ AlertaEsperado(ultimo.antes, ultimo.campos) = ALERTA_SUCESSO
      THEN /\ Len(Registros(armazenamento)) = Len(Registros(ultimo.antes)) + 1
           /\ SubSeq(Registros(armazenamento), 1, Len(Registros(ultimo.antes)))
                = Registros(ultimo.antes)
           /\ Carrega(Registros(armazenamento)[Len(Registros(armazenamento))], ultimo.campos)
      ELSE Registros(armazenamento) = Registros(ultimo.antes)

\* A submit with no service chosen was accepted when one record was stored
\* already.
C3_Testemunha ==
  /\ ultimo.op = "submit"
  /\ alerta = ALERTA_SUCESSO
  /\ ultimo.campos.servico = <<>>
  /\ Len(Registros(ultimo.antes)) = 1
  /\ Len(Registros(armazenamento)) = 2

\* C4: starting from an empty store, every stored record has a date of
\* October, November or December 2025 that is no Sunday.
C4_DatasPermitidas ==
  \A i \in DOMAIN Registros(armazenamento) :
     /\ DataDe(Registros(armazenamento)[i]).t = "str"
     /\ NoPeriodo(DataDe(Registros(armazenamento)[i]).s)
     /\ DataDe(Registros(armazenamento)[i]).s \notin DomingosDoPeriodo

\* A record is stored and a submit for a Sunday of the period was made.
C4_Testemunha ==
  /\ ultimo.op = "submit"
  /\ ~FaltaCampo(ultimo.campos)
  /\ ultimo.campos.data = Domingo0510
  /\ Len(Registros(armazenamento)) >= 1

\* C5: whatever the key holds, pegarListaDeAgendamentos returns a sequence,
\* and no handler that calls it ends by an uncaught error.
C5_SempreSequencia ==
  /\ pegarListaDeAgendamentos(armazenamento).t = "arr"
  /\ ~erro

MesesPermitidos == {9, 10, 11}

\* C7: the month displayed is October at first and always one of the three
\* allowed months; mudarMesAtual moves to the adjacent month when that month
\* is allowed, and else leaves the month and the calendar as they are.
C7_MesPermitido ==
  /\ mesAtualExibido = 9
  /\ [](mesAtualExibido \in MesesPermitidos)
  /\ [][\A delta \in {-1, 1} :
          MudarMes(delta) =>
            IF mesAtualExibido + delta \in MesesPermitidos
              THEN mesAtualExibido' = mesAtualExibido + delta
              ELSE mesAtualExibido' = mesAtualExibido /\ calendario' = calendario]_vars

\* mudarMesAtual was called at the edge of the period with the calendar not
\* drawn yet: it is still not drawn.
C7_Testemunha ==
  /\ ultimo.op = "mudarMes"
  /\ mesAtualExibido = 9
  /\ ~calendario.renderizado
  /\ Len(Registros(armazenamento)) >= 1

\* Number of stored records of the date.
NoDia(ls, dataISO) ==
  Cardinality({i \in DOMAIN Registros(ls) : DataDe(Registros(ls)[i]) = JStr(dataISO)})

\* #calendar shows the displayed month with, in each cell, the number of
\* records the key holds for that day.
CalendarioConfere ==
  /\ calendario.renderizado
  /\ calendario.mes = mesAtualExibido
  /\ \A dia \in DOMAIN calendario.dias :
        calendario.dias[dia] # -1 =>
          calendario.dias[dia] = NoDia(armazenamento, FormatISO(2025, calendario.mes, dia))

\* Position of a time in the fixed list (0 when it is not in it).
Posicao(h) ==
  IF \E k \in DOMAIN LISTA_DE_HORARIOS_FIXOS : JStr(LISTA_DE_HORARIOS_FIXOS[k]) = h
    THEN CHOOSE k \in DOMAIN LISTA_DE_HORARIOS_FIXOS : JStr(LISTA_DE_HORARIOS_FIXOS[k]) = h
    ELSE 0

\* The places in the stored list of the records of the date.
DoDia(ls, dataISO) == {i \in DOMAIN Registros(ls) : DataDe(Registros(ls)[i]) = JStr(dataISO)}

\* Where record i of the date comes among the records of the date put in the
\* order of the fixed list of times.
Lugar(ls, dataISO, i) ==
  1 + Cardinality({j \in DoDia(ls, dataISO) :
                     \/ Posicao(HoraDe(Registros(ls)[j])) < Posicao(HoraDe(Registros(ls)[i]))
                     \/ /\ Posicao(HoraDe(Registros(ls)[j])) = Posicao(HoraDe(Registros(ls)[i]))
                        /\ j < i})

\* det shows the date: one row for each record the key holds for it and no
\* other, in the order of the fixed list of times; the empty-state message in
\* place of the table when there is none.
DetalhesConferem(det, ls, dataISO) ==
  /\ det.date = dataISO
  /\ det.visivel
  /\ Len(det.linhas) = Cardinality(DoDia(ls, dataISO))
  /\ \A i \in DoDia(ls, dataISO) :
        /\ det.linhas[Lugar(ls, dataISO, i)].hora = HoraDe(Registros(ls)[i])
        /\ det.linhas[Lugar(ls, dataISO, i)].nome = Get(Registros(ls)[i], <<"n","o","m","e">>)
        /\ det.linhas[Lugar(ls, dataISO, i)].servico
             = Get(Registros(ls)[i], <<"s","e","r","v","i","c","o">>)
  /\ det.vazio <=> DoDia(ls, dataISO) = {}

\* An event of the appointments key waits to be handled.
EventoPendente == \E i \in DOMAIN fila : fila[i] = CHAVE_ARMAZENAMENTO

\* C8: when the listener has handled an event of the appointments key, the
\* calendar shows the counts of the store, and the details of the day show
\* the records of the date last viewed if a day had been viewed and are
\* untouched if none had; an event of another key changes neither; and an
\* event of the appointments key, once queued, is in the end handled by the
\* listener, which by the first part leaves a page that shows what the key
\* holds.
C8_Sincroniza ==
  /\ [](ultimo.op = "storage" =>
          /\ CalendarioConfere
          /\ IF detalhe.date # <<>>
               THEN DetalhesConferem(detalhe, armazenamento, detalhe.date)
               ELSE detalhe = DetalheInicial)
  /\ [][(StorageEvent /\ Head(fila) # CHAVE_ARMAZENAMENTO) =>
          (calendario' = calendario /\ detalhe' = detalhe)]_vars
  /\ (EventoPendente ~> (ultimo.op = "storage"))

\* The listener has handled the event of a second record of a day whose
\* details were open: both rows are shown.
C8_Testemunha ==
  /\ ultimo.op = "storage"
  /\ detalhe.date = Segunda0610
  /\ Len(detalhe.linhas) = 2
  /\ calendario.dias[6] = 2

\* C9: mostrarDetalhesDoDia(date) shows one row for each stored record of the
\* date and none of another date, in the order of the fixed list of times
\* whatever the order they were stored in, and the empty-state message when
\* no stored record has the date.
C9_DetalhesDoDia ==
  ultimo.op = "detalhes" => DetalhesConferem(detalhe, armazenamento, ultimo.campos.data)

\* The details of a day were opened whose two records are stored the later
\* time first: the earlier time is the first row.
C9_Testemunha ==
  /\ ultimo.op = "detalhes"
  /\ Len(Registros(armazenamento)) = 2
  /\ HoraDe(Registros(armazenamento)[1]) = JStr(LISTA_DE_HORARIOS_FIXOS[2])
  /\ HoraDe(Registros(armazenamento)[2]) = JStr(LISTA_DE_HORARIOS_FIXOS[1])
  /\ DataDe(Registros(armazenamento)[1]) = DataDe(Registros(armazenamento)[2])
  /\ Len(detalhe.linhas) = 2
  /\ detalhe.linhas[1].hora = JStr(LISTA_DE_HORARIOS_FIXOS[1])

\* C10: when the submit handlers of two tabs interleave, a tab that writes
\* the list back after another tab wrote since it read replaces the whole
\* list: each record the other tab had appended meanwhile was in the list
\* before the write and is not in it after, and the writer's own record is
\* the last of the list.
C10_UltimaEscritaVence ==
  (ultimo.op = "salvar" /\ ultimo.perdidos # <<>>) =>
    /\ \A i \in DOMAIN ultimo.perdidos :
          /\ \E j \in DOMAIN Registros(ultimo.antes) :
                Registros(ultimo.antes)[j] = ultimo.perdidos[i]
          /\ \A j \in DOMAIN Registros(armazenamento) :
                Registros(armazenamento)[j] # ultimo.perdidos[i]
    /\ Carrega(Registros(armazenamento)[Len(Registros(armazenamento))], ultimo.campos)

\* Both tabs read the empty list before either wrote: after the second
\* write the list holds the second writer's record alone.
C10_Testemunha ==
  /\ ultimo.op = "salvar"
  /\ Len(ultimo.perdidos) = 1
  /\ Len(Registros(ultimo.antes)) = 1
  /\ Len(Registros(armazenamento)) = 1
  /\ Registros(armazenamento)[1] # Registros(ultimo.antes)[1]

====
